---- MODULE Spec2Model ----
(***************************************************************************)
(* A state-machine model of financialmodels.py: the ProxyPool class, the   *)
(* paging loop of get_liquid_us_stocks, the per-symbol retry loop of       *)
(* download_stock_data, the stale selection of update_stock_data and the   *)
(* monthly panel of clean_stock_data.                                      *)
(*                                                                         *)
(* Five specifications share the variables:                                *)
(*   SpecPool   any sequence of calls on one ProxyPool object              *)
(*   SpecPage   one call of get_liquid_us_stocks, iteration by iteration   *)
(*   SpecFetch  one call of update_stock_data and the call of              *)
(*              download_stock_data it makes, attempt by attempt, and a    *)
(*              call of clean_stock_data before or after it                *)
(*   SpecClean  one call of clean_stock_data on any artifacts              *)
(*   SpecRace   remove_bad_proxies and random_proxy in two threads,        *)
(*              statement by statement                                     *)
(* Library calls are modelled by their documented behaviour:               *)
(*   stats.randint(low, high).rvs() draws from low .. high-1 and raises    *)
(*     ValueError when high <= low;                                        *)
(*   requests.get raises on a connection failure or a timeout and returns  *)
(*     a response object for every status code;                            *)
(*   pd.concat([]) raises ValueError;                                      *)
(*   DataFrame.to_csv(path) opens path for writing (truncating it) and     *)
(*     writes the rows in place;                                           *)
(*   Timedelta.days is the whole number of days (floor);                   *)
(*   resample('M').agg('last') gives one row for every calendar month from *)
(*     the first to the last observed, with the last row of the month;     *)
(*   df[col] = array on a frame without rows gives the frame the index of  *)
(*     the array, every other cell NaN.                                    *)
(* np.loadtxt / np.genfromtxt are taken to return the lines of the file.   *)
(***************************************************************************)
EXTENDS Integers, Sequences, FiniteSets, TLC

(***************************************************************************)
(* Bounds of the model.                                                    *)
(***************************************************************************)
\* longest proxy list loaded by ProxyPool.__init__
MaxProxies == 3
\* distinct proxy lines (p1 .. pNumProxyIds)
NumProxyIds == 2

\* ticker symbols are 1 .. NumSymbols, numbered in ascending (sorted) order
NumSymbols == 2
\* most rows the upstream returns in one page
MaxRows == 1
\* most pages the upstream serves with rows
MaxPages == 2
\* most iterations of the paging loop that are followed
MaxIter == 6

\* rows of the daily series the history endpoint returns
SeriesLen == 4
\* clock resolution: ticks per day
TicksPerDay == 2

\* days of a calendar month
DaysPerMonth == 2
\* calendar months of the longest artifact clean_stock_data is given
MaxMonths == 4

\* default of the nmax parameter of verify_ip_addresses
nmax == 10
\* defaults of the parameters of get_liquid_us_stocks
count == 250
failure_limit == 5
\* default of the failure_limit parameter of download_stock_data
sym_failure_limit == 5
\* default of the parameter of update_stock_data
max_days_since_update == 7

Min(a, b) == IF a <= b THEN a ELSE b

SeqsUpTo(S, n) == UNION {[1..k -> S] : k \in 0..n}

\* a proxy is the dict {'http': x, 'https': x} built from one line; it is
\* identified here by the number of its line
Proxies == 1..NumProxyIds

Symbols == 1..NumSymbols

VARIABLES
  \* ---- ProxyPool object
  proxy_list,     \* self.proxy_list
  num_proxies,    \* self.num_proxies
  random_index,   \* self.random_index: the frozen randint(low, high)
  pool_ret,       \* how the last call on the pool ended
  pool_loaded,    \* history: the number of proxies __init__ loaded
  pool_before,    \* history: proxy_list when the last remove_bad_proxies began
  pool_probe,     \* history: how each probe of the last remove_bad_proxies ended
  pool_rerun,     \* history: <<n>> when the last remove_bad_proxies directly
                  \* followed one that removed n, the health of every proxy
                  \* being the same in both; else <<>>
  \* ---- get_liquid_us_stocks
  page_pc,        \* "idle", "loop" (in the while loop), "returned", "raised"
  offset,         \* offset
  numfailures,    \* numfailures
  df_list,        \* df_list: the recorded pages
  res,            \* the local res: <<>> while unbound, else <<response>>
  page_ret,       \* the value returned (ticker_symbols) or the error raised
  snapshot,       \* data/tickers/<date>_liquid_us_stocks.txt: <<>> or <<lines>>
  page_hist,      \* history: the iterations made and how the last request ended
  \* ---- update_stock_data / download_stock_data
  raw,            \* data/tickers/raw: per symbol <<>> or <<[content, age]>>
  dl_pc,          \* "idle", "loop" (in the while loop of symbol i), "returned", "raised"
  dl_symbols,     \* the ticker_symbols argument of download_stock_data
  dl_i,           \* position of the for loop in dl_symbols (1-based)
  sym_numfailures, \* numfailures of download_stock_data
  keepgoing,      \* keepgoing
  tickers_to_download, \* <<>> or <<the list update_stock_data built>>
  attempt_log,    \* history: how each attempt for the symbol at dl_i ended
  attempted,      \* history: the positions of dl_symbols attempted so far
  fetched,        \* history: per symbol, the series history() returned so far
  raw0,           \* history: the raw store when the call began
  dl_stdout,      \* the lines download_stock_data printed: <<i, n, symbol>>
  dl_ret,         \* the value download_stock_data returned (<<>> for None)
  dl_failed,      \* history: the symbols whose while loop ended by the ceiling
  \* ---- clean_stock_data
  market,         \* per day of the history, the Close and the Volume of that day
  clean_pc,       \* "idle", "returned", "raised"
  clean_df_list,  \* df_list: the monthly frame of each symbol with an artifact
  clean_ret,      \* the frame returned or the error raised
  clean_out,      \* data/tickers/clean/<date>_stock_data_clean.csv: <<>> or <<rows>>
  clean_when,     \* history: dl_pc when clean_stock_data was called
  \* ---- remove_bad_proxies and random_proxy called by two threads
  rb_pc,          \* remove_bad_proxies: "idle", "line61", "line62", "line63"
  rb_working,     \* its local working_proxies
  rb_n_start,     \* its local n_start
  rp_pc,          \* random_proxy: "idle", "loaded", "drawn", "done"
  rp_list,        \* the list self.proxy_list evaluated to
  rp_range,       \* the size of the range self.random_index() drew from
  rp_index,       \* the index drawn
  rp_ret          \* how the call ended

poolvars == <<proxy_list, num_proxies, random_index, pool_ret, pool_loaded,
              pool_before, pool_probe, pool_rerun>>

pagevars == <<page_pc, offset, numfailures, df_list, res, page_ret, snapshot, page_hist>>

fetchvars == <<raw, dl_pc, dl_symbols, dl_i, sym_numfailures, keepgoing,
               tickers_to_download, attempt_log, attempted, fetched, raw0,
               dl_stdout, dl_ret, dl_failed>>

cleanvars == <<market, clean_pc, clean_df_list, clean_ret, clean_out, clean_when>>

racevars == <<rb_pc, rb_working, rb_n_start, rp_pc, rp_list, rp_range,
              rp_index, rp_ret>>

vars == <<poolvars, pagevars, fetchvars, cleanvars, racevars>>

(***************************************************************************)
(* scipy.stats.randint(low, high): a frozen discrete uniform distribution  *)
(* on low .. high-1.  rvs() raises ValueError when the arguments are out   *)
(* of the domain (high <= low): rvs_values is then empty.                  *)
(***************************************************************************)
randint(low, high) == [low |-> low, high |-> high]

rvs_values(g) == IF g.high > g.low THEN g.low .. (g.high - 1) ELSE {}

\* the outcome of a call: how it ended and what it returned or printed
Ret(call, status, value) == [call |-> call, status |-> status, value |-> value]

(***************************************************************************)
(* ProxyPool.__init__ (lines 15-25).                                       *)
(***************************************************************************)
ProxyPoolInit(lines) ==
  /\ proxy_list = lines
  /\ num_proxies = Len(lines)
  /\ random_index = randint(0, Len(lines))
  /\ pool_ret = Ret("__init__", "ok", <<>>)
  /\ pool_loaded = Len(lines)
  /\ pool_before = <<>>
  /\ pool_probe = <<>>
  /\ pool_rerun = <<>>

(***************************************************************************)
(* ProxyPool.verify_ip_addresses (lines 27-41): probes the first           *)
(* min(nmax, len) proxies and prints the answers.  requests.get is not     *)
(* guarded here: a probe that raises ends the call with the exception.     *)
(* The pool is not written.                                                *)
(***************************************************************************)
verify_ip_addresses(all_answer) ==
  LET n == Min(nmax, Len(proxy_list)) IN
  /\ pool_ret' = IF all_answer \/ n = 0
                   THEN Ret("verify_ip_addresses", "ok", <<n>>)
                   ELSE Ret("verify_ip_addresses", "RequestException", <<>>)
  /\ UNCHANGED <<proxy_list, num_proxies, random_index, pool_loaded,
               pool_before, pool_probe, pool_rerun>>

(***************************************************************************)
(* ProxyPool.remove_bad_proxies (lines 43-69).  probe[i] is the outcome of *)
(* requests.get through proxy_list[i].  The bare except catches whatever   *)
(* requests.get raises; a response is kept whatever its status code.       *)
(***************************************************************************)
ProbeOutcomes == {"ok2xx", "non2xx", "connfail", "timeout"}

\* requests.get(url, proxies=proxy) raises (line 55)
ProbeRaises(o) == o \in {"connfail", "timeout"}

\* the health of every proxy is the same in two probing runs: some health h
\* of the proxies gives the probes p1 of the list l1 and p2 of the list l2
SameHealth(l1, p1, l2, p2) ==
  \E h \in [Proxies -> ProbeOutcomes] :
    /\ \A i \in DOMAIN l1 : p1[i] = h[l1[i]]
    /\ \A j \in DOMAIN l2 : p2[j] = h[l2[j]]

RECURSIVE working_proxies_short(_, _, _)
\* the loop of lines 53-59 stopping one proxy early
working_proxies_short(lst, probe, i) ==
  IF i >= Len(lst) THEN <<>>
  ELSE (IF ProbeRaises(probe[i]) THEN <<>> ELSE <<lst[i]>>)
       \o working_proxies_short(lst, probe, i + 1)

RECURSIVE working_proxies_from(_, _, _)
\* the loop of lines 53-59, from index i on
working_proxies_from(lst, probe, i) ==
  IF i > Len(lst) THEN <<>>
  ELSE (IF ProbeRaises(probe[i]) THEN <<>> ELSE <<lst[i]>>)
       \o working_proxies_from(lst, probe, i + 1)

\* lines 61-63 without line 63: the generator keeps its old range
SwapInStaleRange(working_proxies) ==
  /\ proxy_list' = working_proxies
  /\ num_proxies' = Len(working_proxies)
  /\ UNCHANGED random_index

\* lines 61-63 without line 62: num_proxies keeps its old value
SwapInStaleCount(working_proxies) ==
  /\ proxy_list' = working_proxies
  /\ UNCHANGED num_proxies
  /\ random_index' = randint(0, Len(working_proxies))

\* lines 61-63: the three assignments that follow the probing loop
SwapIn(working_proxies) ==
  /\ proxy_list' = working_proxies
  /\ num_proxies' = Len(working_proxies)
  /\ random_index' = randint(0, Len(working_proxies))

remove_bad_proxies(probe) ==
  LET n_start == num_proxies
      working_proxies == working_proxies_from(proxy_list, probe, 1)
  IN /\ SwapIn(working_proxies)
     /\ pool_ret' = Ret("remove_bad_proxies", "ok",
                        <<n_start - Len(working_proxies), n_start>>)
     /\ pool_before' = proxy_list
     /\ pool_probe' = probe
     /\ pool_rerun' = IF /\ pool_ret.call = "remove_bad_proxies"
                         /\ SameHealth(pool_before, pool_probe, proxy_list, probe)
                        THEN <<pool_ret.value[1]>>
                        ELSE <<>>
     /\ UNCHANGED pool_loaded

(***************************************************************************)
(* ProxyPool.random_proxy (lines 72-79): self.proxy_list[self.random_index()] *)
(* Python lists are 0-based, sequences 1-based.                            *)
(***************************************************************************)
\* the ways proxy_list[random_index()] can end: a proxy, or the error raised
RandomProxyOutcomes ==
  IF rvs_values(random_index) = {}
    THEN {Ret("random_proxy", "ValueError", <<>>)}
    ELSE {IF i + 1 \in DOMAIN proxy_list
            THEN Ret("random_proxy", "ok", <<proxy_list[i + 1]>>)
            ELSE Ret("random_proxy", "IndexError", <<i>>)
          : i \in rvs_values(random_index)}

random_proxy ==
  /\ \E r \in RandomProxyOutcomes : pool_ret' = r
  /\ UNCHANGED <<proxy_list, num_proxies, random_index, pool_loaded,
               pool_before, pool_probe, pool_rerun>>

(***************************************************************************)
(* remove_bad_proxies and random_proxy of one ProxyPool called by two      *)
(* threads.  No statement of either takes a lock; the interpreter may      *)
(* switch threads between any two statements and between the evaluation    *)
(* of the parts of the expression of line 77.                              *)
(***************************************************************************)
poolhist == <<pool_ret, pool_loaded, pool_before, pool_probe, pool_rerun>>

\* lines 49-59: n_start is read and the probing loop fills working_proxies
RaceProbe(probe) ==
  /\ rb_pc = "idle"
  /\ rb_n_start' = num_proxies
  /\ rb_working' = working_proxies_from(proxy_list, probe, 1)
  /\ rb_pc' = "line61"
  /\ UNCHANGED <<proxy_list, num_proxies, random_index, poolhist>>
  /\ UNCHANGED <<rp_pc, rp_list, rp_range, rp_index, rp_ret>>
  /\ UNCHANGED <<pagevars, fetchvars, cleanvars>>

\* line 61
RaceLine61 ==
  /\ rb_pc = "line61"
  /\ proxy_list' = rb_working
  /\ rb_pc' = "line62"
  /\ UNCHANGED <<num_proxies, random_index, poolhist, rb_working, rb_n_start>>
  /\ UNCHANGED <<rp_pc, rp_list, rp_range, rp_index, rp_ret>>
  /\ UNCHANGED <<pagevars, fetchvars, cleanvars>>

\* line 62
RaceLine62 ==
  /\ rb_pc = "line62"
  /\ num_proxies' = Len(proxy_list)
  /\ rb_pc' = "line63"
  /\ UNCHANGED <<proxy_list, random_index, poolhist, rb_working, rb_n_start>>
  /\ UNCHANGED <<rp_pc, rp_list, rp_range, rp_index, rp_ret>>
  /\ UNCHANGED <<pagevars, fetchvars, cleanvars>>

\* line 63, and the return of lines 65-69
RaceLine63 ==
  /\ rb_pc = "line63"
  /\ random_index' = randint(0, num_proxies)
  /\ rb_pc' = "idle"
  /\ UNCHANGED <<proxy_list, num_proxies, poolhist, rb_working, rb_n_start>>
  /\ UNCHANGED <<rp_pc, rp_list, rp_range, rp_index, rp_ret>>
  /\ UNCHANGED <<pagevars, fetchvars, cleanvars>>

\* line 77: self.proxy_list is evaluated
RaceLoadList ==
  /\ rp_pc \in {"idle", "done"}
  /\ rp_list' = proxy_list
  /\ rp_pc' = "loaded"
  /\ UNCHANGED <<rp_range, rp_index, rp_ret>>
  /\ UNCHANGED <<poolvars, rb_pc, rb_working, rb_n_start>>
  /\ UNCHANGED <<pagevars, fetchvars, cleanvars>>

\* line 77: self.random_index() is evaluated; rvs raises on an empty range
RaceDraw ==
  /\ rp_pc = "loaded"
  /\ rp_range' = Cardinality(rvs_values(random_index))
  /\ IF rvs_values(random_index) = {}
       THEN /\ rp_pc' = "done"
            /\ rp_ret' = Ret("random_proxy", "ValueError", <<>>)
            /\ UNCHANGED rp_index
       ELSE /\ rp_pc' = "drawn"
            /\ rp_index' \in rvs_values(random_index)
            /\ UNCHANGED rp_ret
  /\ UNCHANGED rp_list
  /\ UNCHANGED <<poolvars, rb_pc, rb_working, rb_n_start>>
  /\ UNCHANGED <<pagevars, fetchvars, cleanvars>>

\* line 77: the list is indexed; lines 77-79: proxy is returned
RaceSubscript ==
  /\ rp_pc = "drawn"
  /\ rp_pc' = "done"
  /\ rp_ret' = IF rp_index + 1 \in DOMAIN rp_list
                 THEN Ret("random_proxy", "ok", <<rp_list[rp_index + 1]>>)
                 ELSE Ret("random_proxy", "IndexError", <<rp_index>>)
  /\ UNCHANGED <<rp_list, rp_range, rp_index>>
  /\ UNCHANGED <<poolvars, rb_pc, rb_working, rb_n_start>>
  /\ UNCHANGED <<pagevars, fetchvars, cleanvars>>

(***************************************************************************)
(* get_liquid_us_stocks (lines 158-224).                                   *)
(*                                                                         *)
(* A response is [status_code, content]; content is what pd.read_html      *)
(* finds in it: a list of tables, each table the list of its Symbol        *)
(* column.  pd.read_html raises ValueError when it finds no table.         *)
(***************************************************************************)
Response(code, content) == [status_code |-> code, content |-> content]

PageTables == SeqsUpTo(Symbols, MaxRows)

\* what the upstream can answer to one page request
Responses ==
  {Response(503, <<>>), Response(200, <<>>)}
    \cup {Response(200, <<t>>) : t \in PageTables}

\* how the request of line 197 can end: "exception" (requests.get or
\* random_proxy raised) or a response
RequestOutcomes ==
  {<<"exception", Response(0, <<>>)>>}
    \cup (IF \E r \in RandomProxyOutcomes : r.status = "ok"
           THEN {<<"response", r>> : r \in Responses}
           ELSE {})

\* the pages of df_list laid end to end: pd.concat(df_list)['Symbol']
RECURSIVE concat(_)
concat(dfs) == IF dfs = <<>> THEN <<>> ELSE Head(dfs) \o concat(Tail(dfs))

\* the column as it is, repeated values kept
all_values(xs) == xs

\* Series.unique(): the distinct values in order of first appearance
RECURSIVE unique(_)
unique(xs) ==
  IF xs = <<>> THEN <<>>
  ELSE LET init == unique(SubSeq(xs, 1, Len(xs) - 1))
           x == xs[Len(xs)]
       IN IF \E k \in DOMAIN init : init[k] = x THEN init ELSE Append(init, x)

\* insertion of x into the ascending sequence xs
RECURSIVE insert_sorted(_, _)
insert_sorted(x, xs) ==
  IF xs = <<>> THEN <<x>>
  ELSE IF x <= Head(xs) THEN <<x>> \o xs
  ELSE <<Head(xs)>> \o insert_sorted(x, Tail(xs))

\* np.sort: ascending
RECURSIVE np_sort(_)
np_sort(xs) == IF xs = <<>> THEN <<>> ELSE insert_sorted(Head(xs), np_sort(Tail(xs)))

\* request outcome kinds that the paging contract counts as a failed request
PageKind(o) ==
  IF o[1] = "exception" THEN "exception"
  ELSE IF o[2].status_code # 200 THEN "non200"
  ELSE IF o[2].content = <<>> THEN "notable"
  ELSE IF o[2].content[1] = <<>> THEN "zero_rows"
  ELSE "rows"

\* lines 196-199: the try/except around the request
AfterRequest(o) ==
  [numfailures |-> IF o[1] = "exception" THEN numfailures + 1 ELSE numfailures,
   res |-> IF o[1] = "exception" THEN res ELSE <<o[2]>>]

\* lines 201-213: the test of res.status_code and what follows, given the
\* state a left by the try/except.  raised names the error that leaves the
\* function: UnboundLocalError when res was never bound, ValueError when
\* pd.read_html finds no table.
AfterStatusTest(a) ==
  LET keep == [numfailures |-> a.numfailures, offset |-> offset,
               df_list |-> df_list, raised |-> "none"]
  IN IF a.res = <<>> THEN [keep EXCEPT !.raised = "UnboundLocalError"]
     ELSE IF a.res[1].status_code = 200
       THEN IF a.res[1].content = <<>> THEN [keep EXCEPT !.raised = "ValueError"]
            ELSE LET page_df == a.res[1].content[1]
                 IN IF Len(page_df) = 0
                      THEN [keep EXCEPT !.numfailures = a.numfailures + 1]
                      ELSE [keep EXCEPT !.df_list = Append(df_list, page_df),
                                        !.offset = offset + count,
                                        !.numfailures = 0]
       ELSE [keep EXCEPT !.numfailures = a.numfailures + 1]

\* line 178: the loop condition
LoopContinues(nf) == nf < failure_limit

\* lines 217-224: what follows the loop.  pd.concat raises ValueError on an
\* empty list; otherwise the sorted distinct symbols are saved and returned.
AfterLoop(dfs) ==
  IF dfs = <<>> THEN Ret("get_liquid_us_stocks", "ValueError", <<>>)
  ELSE Ret("get_liquid_us_stocks", "ok", np_sort(unique(concat(dfs))))

\* the call: lines 173-176
CallGetLiquidUsStocks ==
  /\ page_pc = "idle"
  /\ page_pc' = "loop"
  /\ offset' = 0
  /\ numfailures' = 0
  /\ df_list' = <<>>
  /\ UNCHANGED <<res, page_ret, snapshot, page_hist>>
  /\ UNCHANGED <<poolvars, fetchvars, cleanvars, racevars>>

\* one iteration of the while loop (lines 178-215) and, when the loop
\* condition then fails, the rest of the function (lines 217-224)
PageIteration(o) ==
  LET a == AfterRequest(o)
      b == AfterStatusTest(a)
      done == b.raised = "none" /\ ~LoopContinues(b.numfailures)
      r == AfterLoop(b.df_list)
  IN /\ page_pc = "loop"
     /\ page_hist.iters < MaxIter
     /\ PageKind(o) = "rows" => Len(df_list) < MaxPages
     /\ numfailures' = b.numfailures
     /\ offset' = b.offset
     /\ df_list' = b.df_list
     /\ res' = a.res
     /\ page_pc' = IF b.raised # "none" THEN "raised"
                   ELSE IF ~done THEN "loop"
                   ELSE IF r.status = "ok" THEN "returned" ELSE "raised"
     /\ page_ret' = IF b.raised # "none"
                      THEN Ret("get_liquid_us_stocks", b.raised, <<>>)
                    ELSE IF done THEN r ELSE page_ret
     /\ snapshot' = IF done /\ r.status = "ok" THEN <<r.value>> ELSE snapshot
     /\ page_hist' = [iters |-> page_hist.iters + 1,
                      last |-> PageKind(o),
                      streak |-> IF PageKind(o) = "rows" THEN 0
                                 ELSE page_hist.streak + 1]
     /\ UNCHANGED <<poolvars, fetchvars, cleanvars, racevars>>

(***************************************************************************)
(* The raw store.  A series is the list of its daily rows (row k is day k  *)
(* of the history); yf.Ticker(symbol).history(period='max') returns the    *)
(* whole history, the same at every attempt of one run.                    *)
(* An artifact is [content, age]: the rows in the file and the time since  *)
(* its last modification, in ticks, at the moment date_today is read.      *)
(***************************************************************************)
DaySeq(n) == [k \in 1..n |-> k]

Series == {DaySeq(SeriesLen)}

Artifact(content, age) == [content |-> content, age |-> age]

\* os.path.exists(filepath)
Exists(store, symbol) == store[symbol] # <<>>

(***************************************************************************)
(* download_stock_data (lines 226-256).                                    *)
(***************************************************************************)
\* how one pass through the try block (lines 246-252) can end:
\*   <<"exception", _, _>>   random_proxy or history() raised: no file touched
\*   <<"written", df, _>>    history() returned df and to_csv wrote it all
\*   <<"write_failed", df, k>>  to_csv raised after it had opened (truncated)
\*                           the file and written the first k rows of df
AttemptOutcomes ==
  {<<"exception", <<>>, 0>>}
    \cup (IF \E r \in RandomProxyOutcomes : r.status = "ok"
           THEN {<<"written", df, Len(df)>> : df \in Series}
                  \cup UNION {{<<"write_failed", df, k>> : k \in 0..(Len(df) - 1)}
                              : df \in Series}
           ELSE {})

\* line 249: df.to_csv(outname), which writes the file in place; a write
\* that fails leaves the rows written so far
to_csv(store, symbol, o) ==
  IF o[1] = "exception" THEN store
  ELSE [store EXCEPT ![symbol] = <<Artifact(SubSeq(o[2], 1, o[3]), 0)>>]

\* line 243 missing: the counter of the previous symbol is carried over
InitialFailuresCarried(prev) == prev

\* line 243: numfailures = 0 at the start of each symbol (prev is the value
\* the previous symbol left)
InitialFailures(prev) == 0

\* line 245 without the keepgoing test
RetryIgnoringSuccess(kg, nf) == nf < sym_failure_limit

\* line 245: the condition of the while loop
RetryContinues(kg, nf) == kg /\ nf < sym_failure_limit

\* lines 250-252: the counter after a pass through the try block
FailuresAfter(nf, ok) == IF ok THEN nf ELSE nf + 1

\* lines 239-244: the for loop reaching position i of lst, the locals of the
\* previous symbol being prev and kg
EnterSymbol(lst, i, prev, kg, printed) ==
  /\ dl_i' = i
  /\ dl_stdout' = IF i > Len(lst) THEN printed
                  ELSE Append(printed, <<i, Len(lst), lst[i]>>)
  /\ dl_ret' = IF i > Len(lst) THEN Ret("download_stock_data", "ok", <<>>)
               ELSE dl_ret
  /\ dl_pc' = IF i > Len(lst) THEN "returned" ELSE "loop"
  /\ sym_numfailures' = IF i > Len(lst) THEN prev ELSE InitialFailures(prev)
  /\ keepgoing' = IF i > Len(lst) THEN kg ELSE TRUE
  /\ attempt_log' = IF i > Len(lst) THEN attempt_log ELSE <<>>

\* the call download_stock_data(lst, proxypool)
CallDownload(lst) ==
  /\ dl_symbols' = lst
  /\ attempted' = {}
  /\ dl_failed' = {}
  /\ EnterSymbol(lst, 1, 0, TRUE, <<>>)

\* one pass through the body of the while loop (lines 246-254) for the
\* symbol at dl_i
Attempt(o) ==
  LET symbol == dl_symbols[dl_i]
      ok == o[1] = "written"
  IN /\ dl_pc = "loop"
     /\ RetryContinues(keepgoing, sym_numfailures)
     /\ raw' = to_csv(raw, symbol, o)
     /\ sym_numfailures' = FailuresAfter(sym_numfailures, ok)
     /\ keepgoing' = IF ok THEN FALSE ELSE keepgoing
     /\ attempt_log' = Append(attempt_log, IF ok THEN "ok" ELSE "fail")
     /\ attempted' = attempted \cup {dl_i}
     /\ fetched' = IF o[1] = "exception" THEN fetched
                   ELSE [fetched EXCEPT ![symbol] = @ \cup {o[2]}]
     /\ UNCHANGED <<dl_pc, dl_i, dl_symbols, tickers_to_download, raw0>>
     /\ UNCHANGED <<dl_stdout, dl_ret, dl_failed>>
     /\ UNCHANGED <<poolvars, pagevars, cleanvars, racevars>>

\* the while loop of the symbol at dl_i has ended: the for loop moves to the
\* next symbol, or the function returns (line 256)
NextSymbol ==
  /\ dl_pc = "loop"
  /\ ~RetryContinues(keepgoing, sym_numfailures)
  /\ EnterSymbol(dl_symbols, dl_i + 1, sym_numfailures, keepgoing, dl_stdout)
  /\ dl_failed' = IF keepgoing THEN dl_failed \cup {dl_symbols[dl_i]}
                  ELSE dl_failed
  /\ UNCHANGED <<raw, dl_symbols, tickers_to_download, attempted, fetched, raw0>>
  /\ UNCHANGED <<poolvars, pagevars, cleanvars, racevars>>

(***************************************************************************)
(* update_stock_data (lines 258-292).                                      *)
(***************************************************************************)
\* line 283: (date_today - mtime).days, the whole days of the age
days_since_modified(age) == age \div TicksPerDay

\* line 284 with >= for >
IsOldInclusive(days) == days >= max_days_since_update

\* line 284: the staleness test
IsOld(days) == days > max_days_since_update

\* lines 280-287: is this ticker appended to tickers_to_download
NeedsDownload(store, ticker) ==
  IF Exists(store, ticker)
    THEN IsOld(days_since_modified(store[ticker][1].age))
    ELSE TRUE

\* lines 275-287: the list built by the selection loop
SelectStale(store, ticker_symbols) ==
  SelectSeq(ticker_symbols, LAMBDA t : NeedsDownload(store, t))

\* line 290 with ticker_symbols for tickers_to_download
DownloadEverything(selected, ticker_symbols) == ticker_symbols

\* line 290: the list handed to download_stock_data
DownloadArgument(selected, ticker_symbols) == selected

\* the call update_stock_data(proxypool): the latest snapshot is read, the
\* stale symbols are selected and download_stock_data is entered with them.
\* With no snapshot file, ticker_lists[-1] raises IndexError (line 270).
UpdateStockData ==
  /\ dl_pc = "idle"
  /\ IF snapshot = <<>>
       THEN /\ dl_pc' = "raised"
            /\ UNCHANGED <<dl_symbols, dl_i, sym_numfailures, keepgoing,
                           tickers_to_download, attempt_log, attempted,
                           dl_stdout, dl_ret, dl_failed>>
       ELSE LET ticker_symbols == snapshot[1]
                selected == SelectStale(raw, ticker_symbols)
            IN /\ tickers_to_download' = <<selected>>
               /\ CallDownload(DownloadArgument(selected, ticker_symbols))
  /\ UNCHANGED <<raw, fetched, raw0>>
  /\ UNCHANGED <<poolvars, pagevars, cleanvars, racevars>>

(***************************************************************************)
(* clean_stock_data (lines 294-335).  A day is a number, DaysPerMonth days *)
(* make a calendar month.  A cell of a frame is <<v>>, or <<>> for NaN or  *)
(* NaT.  The logarithm of a ratio is kept as the pair <<p, q>> standing    *)
(* for ln(p / q).                                                          *)
(***************************************************************************)
NaN == <<>>

\* the calendar month of a day
MonthOf(day) == (day - 1) \div DaysPerMonth + 1

\* the last day of a month: the label resample('M') gives the bin
MonthEnd(m) == m * DaysPerMonth

\* lines 319-322: the rows of the artifact with Symbol, Date and Price
read_csv(ticker, content, mk) ==
  [k \in DOMAIN content |->
     [Symbol |-> <<ticker>>, Date |-> content[k],
      Price |-> <<mk[content[k]].Close>>,
      Volume |-> <<mk[content[k]].Volume>>]]

\* agg 'last': the value of the column in the last row of the bin, NaN for
\* a bin without rows
last(bin, col) == IF bin = <<>> THEN NaN ELSE bin[Len(bin)][col]

\* line 323, resample('M', on='Date').agg(...): one row for every month from
\* the month of the earliest Date to the month of the latest
resample(df) ==
  IF df = <<>> THEN <<>>
  ELSE LET months == {MonthOf(df[k].Date) : k \in DOMAIN df}
           lo == CHOOSE m \in months : \A x \in months : m <= x
           hi == CHOOSE m \in months : \A x \in months : x <= m
       IN [j \in 1..(hi - lo + 1) |->
             LET bin == SelectSeq(df, LAMBDA r : MonthOf(r.Date) = lo + j - 1)
             IN [Date |-> <<MonthEnd(lo + j - 1)>>,
                 Symbol |-> last(bin, "Symbol"),
                 Price |-> last(bin, "Price"),
                 Volume |-> last(bin, "Volume")]]

\* .iloc[:, ]: every row is kept
iloc_all(df) == df

\* line 323, .iloc[:-1,]: the last row is dropped
iloc_but_last(df) == IF df = <<>> THEN <<>> ELSE SubSeq(df, 1, Len(df) - 1)

\* line 325: Period is the month of Date
with_period(df) ==
  [k \in DOMAIN df |->
     [Symbol |-> df[k].Symbol, Date |-> df[k].Date, Price |-> df[k].Price,
      Volume |-> df[k].Volume,
      Period |-> IF df[k].Date = NaN THEN NaN ELSE <<MonthOf(df[k].Date[1])>>]]

\* np.log(p / q) of two cells
log_ratio(p, q) == IF p = NaN \/ q = NaN THEN NaN ELSE <<p[1], q[1]>>

\* line 326, right-hand side: NaN followed by the log of the ratio of each
\* price to the one before it
log_returns(prices) ==
  <<NaN>> \o [k \in 1..(Len(prices) - 1) |-> log_ratio(prices[k + 1], prices[k])]

\* line 326, df['Monthly Log Return'] = values.  A frame without rows is
\* first given the index of the values, its other cells NaN; the values of
\* line 326 have the length of any other frame.
set_log_return(df, values) ==
  IF df = <<>>
    THEN [k \in DOMAIN values |->
            [Symbol |-> NaN, Date |-> NaN, Price |-> NaN, Volume |-> NaN,
             Period |-> NaN, Monthly_Log_Return |-> values[k]]]
    ELSE [k \in DOMAIN df |->
            [Symbol |-> df[k].Symbol, Date |-> df[k].Date,
             Price |-> df[k].Price, Volume |-> df[k].Volume,
             Period |-> df[k].Period, Monthly_Log_Return |-> values[k]]]

\* lines 319-327: the monthly frame of one artifact
monthly_frame(ticker, content, mk) ==
  LET df == with_period(iloc_but_last(resample(read_csv(ticker, content, mk))))
  IN set_log_return(df, log_returns([k \in DOMAIN df |-> df[k].Price]))

RECURSIVE clean_loop(_, _, _, _)
\* lines 314-329: df_list after the loop from position i of ticker_symbols
clean_loop(ticker_symbols, store, mk, i) ==
  IF i > Len(ticker_symbols) THEN <<>>
  ELSE (IF Exists(store, ticker_symbols[i])
          THEN <<monthly_frame(ticker_symbols[i],
                               store[ticker_symbols[i]][1].content, mk)>>
          ELSE <<>>)
       \o clean_loop(ticker_symbols, store, mk, i + 1)

\* the call clean_stock_data(), outside any run of the fetcher.  With no
\* snapshot file ticker_lists[-1] raises IndexError (line 305); with no
\* frame in df_list pd.concat raises ValueError (line 331).
CleanStockData ==
  /\ clean_pc = "idle"
  /\ dl_pc \in {"idle", "returned", "raised"}
  /\ clean_when' = dl_pc
  /\ IF snapshot = <<>>
       THEN /\ clean_pc' = "raised"
            /\ clean_ret' = Ret("clean_stock_data", "IndexError", <<>>)
            /\ UNCHANGED <<clean_df_list, clean_out>>
       ELSE LET dfs == clean_loop(snapshot[1], raw, market, 1)
            IN /\ clean_df_list' = dfs
               /\ IF dfs = <<>>
                    THEN /\ clean_pc' = "raised"
                         /\ clean_ret' = Ret("clean_stock_data", "ValueError", <<>>)
                         /\ UNCHANGED clean_out
                    ELSE /\ clean_pc' = "returned"
                         /\ clean_ret' = Ret("clean_stock_data", "ok", concat(dfs))
                         /\ clean_out' = <<concat(dfs)>>
  /\ UNCHANGED market
  /\ UNCHANGED <<poolvars, pagevars, fetchvars, racevars>>

(***************************************************************************)
(* The states before a call.                                               *)
(***************************************************************************)
PageIdle ==
  /\ page_pc = "idle"
  /\ offset = 0
  /\ numfailures = 0
  /\ df_list = <<>>
  /\ res = <<>>
  /\ page_ret = Ret("get_liquid_us_stocks", "none", <<>>)
  /\ page_hist = [iters |-> 0, last |-> "none", streak |-> 0]

FetchIdle(store) ==
  /\ raw = store
  /\ raw0 = store
  /\ dl_pc = "idle"
  /\ dl_symbols = <<>>
  /\ dl_i = 0
  /\ sym_numfailures = 0
  /\ keepgoing = TRUE
  /\ tickers_to_download = <<>>
  /\ attempt_log = <<>>
  /\ attempted = {}
  /\ fetched = [s \in Symbols |-> {}]
  /\ dl_stdout = <<>>
  /\ dl_ret = Ret("download_stock_data", "none", <<>>)
  /\ dl_failed = {}

EmptyStore == [s \in Symbols |-> <<>>]

\* the pools the two fetchers are run with: an empty pool and a pool of one
\* proxy (they read the pool through random_proxy only)
FetcherPools == SeqsUpTo({1}, 1)

\* the ages of the artifacts present when update_stock_data starts: one day,
\* and from one tick less than max_days_since_update days to one day more
\* than it
Ages == {TicksPerDay}
          \cup ((max_days_since_update * TicksPerDay - 1)
                  .. ((max_days_since_update + 1) * TicksPerDay))

\* an artifact left by an earlier run holds the history of that time: one
\* day shorter, or the first day only
PriorSeries == {DaySeq(1), DaySeq(SeriesLen - 1)}

Stores ==
  [Symbols -> {<<>>} \cup {<<Artifact(df, a)>> : df \in PriorSeries, a \in Ages}]

\* the days of the longest history
Days == 1..(MaxMonths * DaysPerMonth)

\* closes and volumes that tell every day from every other
RisingMarket == [d \in Days |-> [Close |-> 100 + d, Volume |-> 1000 + d]]

\* the closes of the last days of the months repeat 100, 110, 99
CycleMarket ==
  [d \in Days |->
     [Close |-> IF d = MonthEnd(MonthOf(d))
                  THEN <<100, 110, 99>>[((MonthOf(d) - 1) % 3) + 1]
                  ELSE 200 + d,
      Volume |-> 1000 + d]]

Markets == {RisingMarket, CycleMarket}

\* the artifacts clean_stock_data is given: the first n days of the history,
\* one day at least
CleanStores ==
  [Symbols -> {<<>>} \cup {<<Artifact(DaySeq(n), TicksPerDay)>> : n \in Days}]

CleanIdle(mk) ==
  /\ market = mk
  /\ clean_pc = "idle"
  /\ clean_df_list = <<>>
  /\ clean_ret = Ret("clean_stock_data", "none", <<>>)
  /\ clean_out = <<>>
  /\ clean_when = "none"

RaceIdle ==
  /\ rb_pc = "idle"
  /\ rb_working = <<>>
  /\ rb_n_start = 0
  /\ rp_pc = "idle"
  /\ rp_list = <<>>
  /\ rp_range = 0
  /\ rp_index = 0
  /\ rp_ret = Ret("random_proxy", "none", <<>>)

\* a snapshot written by get_liquid_us_stocks is ascending without repeats
Universes ==
  {u \in SeqsUpTo(Symbols, NumSymbols) :
     \A i \in DOMAIN u : \A j \in DOMAIN u : i < j => u[i] < u[j]}

(***************************************************************************)
(* SpecPool: a ProxyPool object and any sequence of calls of its methods.  *)
(***************************************************************************)
InitPool ==
  /\ \E lines \in SeqsUpTo(Proxies, MaxProxies) : ProxyPoolInit(lines)
  /\ PageIdle
  /\ snapshot = <<>>
  /\ FetchIdle(EmptyStore)
  /\ CleanIdle(RisingMarket)
  /\ RaceIdle

CallVerifyIpAddresses ==
  /\ \E all_answer \in BOOLEAN : verify_ip_addresses(all_answer)
  /\ UNCHANGED <<pagevars, fetchvars, cleanvars, racevars>>

CallRemoveBadProxies ==
  /\ \E probe \in [1..Len(proxy_list) -> ProbeOutcomes] : remove_bad_proxies(probe)
  /\ UNCHANGED <<pagevars, fetchvars, cleanvars, racevars>>

CallRandomProxy ==
  /\ random_proxy
  /\ UNCHANGED <<pagevars, fetchvars, cleanvars, racevars>>

NextPool == CallVerifyIpAddresses \/ CallRemoveBadProxies \/ CallRandomProxy

SpecPool == InitPool /\ [][NextPool]_vars

(***************************************************************************)
(* SpecRace: one thread calls remove_bad_proxies, again and again, while   *)
(* another calls random_proxy, on the same ProxyPool.                      *)
(***************************************************************************)
NextRace ==
  \/ \E probe \in [1..Len(proxy_list) -> ProbeOutcomes] : RaceProbe(probe)
  \/ RaceLine61
  \/ RaceLine62
  \/ RaceLine63
  \/ RaceLoadList
  \/ RaceDraw
  \/ RaceSubscript

SpecRace == InitPool /\ [][NextRace]_vars

(***************************************************************************)
(* SpecPage: one call of get_liquid_us_stocks.                             *)
(***************************************************************************)
InitPage ==
  /\ \E lines \in FetcherPools : ProxyPoolInit(lines)
  /\ PageIdle
  /\ snapshot = <<>>
  /\ FetchIdle(EmptyStore)
  /\ CleanIdle(RisingMarket)
  /\ RaceIdle

NextPage ==
  \/ CallGetLiquidUsStocks
  \/ \E o \in RequestOutcomes : PageIteration(o)

SpecPage == InitPage /\ [][NextPage]_vars

(***************************************************************************)
(* SpecFetch: one call of update_stock_data on any raw store and snapshot,  *)
(* with the call of download_stock_data it makes.                          *)
(***************************************************************************)
InitFetch ==
  /\ \E lines \in FetcherPools : ProxyPoolInit(lines)
  /\ PageIdle
  /\ snapshot \in {<<>>} \cup {<<u>> : u \in Universes}
  /\ \E store \in Stores : FetchIdle(store)
  /\ CleanIdle(RisingMarket)
  /\ RaceIdle

NextFetch ==
  \/ UpdateStockData
  \/ \E o \in AttemptOutcomes : Attempt(o)
  \/ NextSymbol
  \/ CleanStockData

SpecFetch == InitFetch /\ [][NextFetch]_vars

(***************************************************************************)
(* SpecClean: one call of clean_stock_data on any universe, any artifacts  *)
(* and either market.                                                      *)
(***************************************************************************)
InitClean ==
  /\ ProxyPoolInit(<<>>)
  /\ PageIdle
  /\ snapshot \in {<<>>} \cup {<<u>> : u \in Universes}
  /\ \E store \in CleanStores : FetchIdle(store)
  /\ \E mk \in Markets : CleanIdle(mk)
  /\ RaceIdle

NextClean == CleanStockData

SpecClean == InitClean /\ [][NextClean]_vars

Range(f) == {f[k] : k \in DOMAIN f}

(***************************************************************************)
(* C1.  The paging loop is bounded by the failure ceiling: once            *)
(* failure_limit requests in a row have failed (transport error,           *)
(* non-success status, unparsable or empty page), the loop has ended.      *)
(* Refuted: after an exception the test of line 201 reads the response of  *)
(* an earlier iteration.                                                   *)
(***************************************************************************)
C1_LoopEndsAtFailureCeiling ==
  page_hist.streak >= failure_limit => page_pc # "loop"

(***************************************************************************)
(* C2.  Every iteration whose request ends in a transport error or a       *)
(* non-success status adds exactly one to numfailures, leaves offset       *)
(* unchanged and records no page.                                          *)
(***************************************************************************)
C2_FailedRequestCountsOnce ==
  [][(/\ page_pc = "loop"
      /\ page_hist'.iters = page_hist.iters + 1
      /\ page_hist'.last \in {"exception", "non200"})
     => (/\ numfailures' = numfailures + 1
         /\ offset' = offset
         /\ df_list' = df_list)]_vars

(***************************************************************************)
(* C3.  If the request for the first page fails failure_limit times in a   *)
(* row (transport error, non-success status or zero rows), the function    *)
(* returns the empty universe and raises nothing.                          *)
(***************************************************************************)
C3_EmptyUniverseReturned ==
  (/\ page_hist.iters = failure_limit
   /\ page_hist.streak = failure_limit
   /\ page_hist.last \in {"exception", "non200", "zero_rows"})
  => (/\ page_pc = "returned"
      /\ page_ret.status = "ok"
      /\ page_ret.value = <<>>)

(***************************************************************************)
(* C4.  After a run of download_stock_data every symbol's raw artifact is  *)
(* absent, or holds what it held before the run, or holds the whole of a   *)
(* series fetched in the run.                                              *)
(***************************************************************************)
C4_ArtifactNeverPartial ==
  dl_pc = "returned" =>
    \A s \in Symbols :
      \/ raw[s] = <<>>
      \/ raw0[s] # <<>> /\ raw[s][1].content = raw0[s][1].content
      \/ raw[s][1].content \in fetched[s]

(***************************************************************************)
(* C5.  Every symbol of the requested list is attempted at least once, and *)
(* the failure counter of each symbol starts at zero whatever the symbols  *)
(* before it did.                                                          *)
(***************************************************************************)
C5_EverySymbolAttempted ==
  /\ (dl_pc = "loop" /\ attempt_log = <<>>) => (sym_numfailures = 0 /\ keepgoing)
  /\ (dl_pc = "loop" /\ ~RetryContinues(keepgoing, sym_numfailures))
       => attempted = 1..dl_i
  /\ dl_pc = "returned" => attempted = 1..Len(dl_symbols)

\* the first symbol failed for good (it had no artifact and has none), and
\* the second was then fetched and written
C5_Witness ==
  /\ dl_pc = "returned"
  /\ Len(dl_symbols) >= 2
  /\ raw0[dl_symbols[1]] = <<>>
  /\ raw[dl_symbols[1]] = <<>>
  /\ raw[dl_symbols[2]] = <<Artifact(DaySeq(SeriesLen), 0)>>

(***************************************************************************)
(* C6.  For each symbol at most sym_failure_limit attempts are made, none  *)
(* after the first successful one, and exactly sym_failure_limit when      *)
(* every attempt fails.                                                    *)
(***************************************************************************)
C6_AttemptsBounded ==
  /\ Len(attempt_log) <= sym_failure_limit
  /\ \A k \in 1..(Len(attempt_log) - 1) : attempt_log[k] = "fail"
  /\ (/\ dl_pc = "loop"
      /\ ~RetryContinues(keepgoing, sym_numfailures)
      /\ \A k \in DOMAIN attempt_log : attempt_log[k] = "fail")
     => Len(attempt_log) = sym_failure_limit

\* the while loop of a symbol has ended after sym_failure_limit failures
C6_Witness ==
  /\ dl_pc = "loop"
  /\ ~RetryContinues(keepgoing, sym_numfailures)
  /\ Len(attempt_log) = sym_failure_limit
  /\ \A k \in DOMAIN attempt_log : attempt_log[k] = "fail"

C8_UnselectedUntouched ==
  tickers_to_download # <<>> =>
    /\ attempted = {} => raw = raw0
    /\ \A s \in Symbols :
         s \notin Range(tickers_to_download[1]) => raw[s] = raw0[s]

\* the run is over: a symbol of the universe was fresh and is as it was,
\* another was selected and rewritten
C8_Witness ==
  /\ dl_pc = "returned"
  /\ tickers_to_download # <<>>
  /\ \E s \in Range(snapshot[1]) : \E t \in Range(tickers_to_download[1]) :
       /\ s \notin Range(tickers_to_download[1])
       /\ raw0[s] # <<>>
       /\ raw[t] # raw0[t]

(***************************************************************************)
(* C9.  random_proxy on an empty pool ends with an error and on a pool of  *)
(* n > 0 proxies returns a member of proxy_list; it never indexes the list *)
(* out of range.                                                           *)
(***************************************************************************)
C9_RandomProxyInRange ==
  pool_ret.call = "random_proxy" =>
    /\ pool_ret.status # "IndexError"
    /\ proxy_list = <<>> => pool_ret.status = "ValueError"
    /\ proxy_list # <<>> =>
         pool_ret.status = "ok" /\ pool_ret.value[1] \in Range(proxy_list)

\* random_proxy was called after remove_bad_proxies had emptied the pool
C9_Witness ==
  /\ pool_ret.call = "random_proxy"
  /\ pool_ret.status = "ValueError"
  /\ pool_loaded > 0
  /\ proxy_list = <<>>

(***************************************************************************)
(* C10.  After construction and after every completed call, num_proxies is *)
(* the length of proxy_list and the generator draws from                   *)
(* 0 .. num_proxies - 1.                                                   *)
(***************************************************************************)
C10_RangeMatchesPool ==
  /\ num_proxies = Len(proxy_list)
  /\ rvs_values(random_index) = 0 .. (num_proxies - 1)

\* some, not all, proxies have been removed and a proxy was then drawn
C10_Witness ==
  /\ pool_ret.call = "random_proxy"
  /\ 0 < num_proxies
  /\ num_proxies < pool_loaded

(***************************************************************************)
(* C11.  remove_bad_proxies keeps, in their order, exactly the proxies     *)
(* whose probe neither failed to connect, nor timed out, nor answered with *)
(* a status outside 2xx.                                                   *)
(***************************************************************************)
RECURSIVE C11_Healthy(_, _, _)
C11_Healthy(lst, probe, i) ==
  IF i > Len(lst) THEN <<>>
  ELSE (IF probe[i] = "ok2xx" THEN <<lst[i]>> ELSE <<>>)
       \o C11_Healthy(lst, probe, i + 1)

C11_RemovesEveryErroringProxy ==
  pool_ret.call = "remove_bad_proxies" =>
    proxy_list = C11_Healthy(pool_before, pool_probe, 1)

(***************************************************************************)
(* C12.  A run of remove_bad_proxies directly after another, the health of *)
(* every proxy being the same in both, removes nothing and leaves          *)
(* proxy_list, num_proxies and the range of the generator as they were.    *)
(***************************************************************************)
C12_SecondRunRemovesNothing ==
  [][(/\ pool_ret.call = "remove_bad_proxies"
      /\ pool_ret'.call = "remove_bad_proxies"
      /\ SameHealth(pool_before, pool_probe, pool_before', pool_probe'))
     => (/\ pool_ret'.value[1] = 0
         /\ proxy_list' = proxy_list
         /\ num_proxies' = num_proxies
         /\ rvs_values(random_index') = rvs_values(random_index))]_vars

\* the first run removed a proxy and kept another, the second run found
\* the same health
C12_Witness ==
  /\ pool_ret.call = "remove_bad_proxies"
  /\ pool_rerun # <<>>
  /\ pool_rerun[1] > 0
  /\ proxy_list # <<>>

(***************************************************************************)
(* C13.  The universe get_liquid_us_stocks returns and saves is strictly   *)
(* ascending (sorted, no symbol twice) and holds exactly the symbols of    *)
(* the recorded pages, whatever the pages repeat.                          *)
(***************************************************************************)
C13_RecordedSymbols == UNION {Range(df_list[k]) : k \in DOMAIN df_list}

C13_UniverseSortedAndUnique ==
  page_pc = "returned" =>
    /\ page_ret.status = "ok"
    /\ \A i, j \in DOMAIN page_ret.value :
         i < j => page_ret.value[i] < page_ret.value[j]
    /\ Range(page_ret.value) = C13_RecordedSymbols
    /\ snapshot = <<page_ret.value>>

\* the recorded pages repeat a symbol and are not in ascending order
C13_Witness ==
  /\ page_pc = "returned"
  /\ \E i, j \in DOMAIN df_list :
       i < j /\ df_list[i] # <<>> /\ df_list[i] = df_list[j]
  /\ \E i, j \in DOMAIN df_list :
       /\ i < j /\ df_list[i] # <<>> /\ df_list[j] # <<>>
       /\ df_list[i][1] > df_list[j][1]

(***************************************************************************)
(* C17.  A download_stock_data run in which a symbol used up its           *)
(* sym_failure_limit attempts returns, and what it reports holds the tally *)
(* of the failed symbols and the set of them: exactly the requested        *)
(* symbols all of whose attempts failed.                                   *)
(***************************************************************************)
C17_FailuresReported ==
  (dl_pc = "returned" /\ dl_failed # {}) =>
    /\ dl_ret.status = "ok"
    /\ dl_ret.value = <<Cardinality(dl_failed), dl_failed>>

\* the symbols of the universe that have an artifact, in the order of the
\* universe: the k-th of them is the symbol of the k-th frame of df_list
CleanedTickers == SelectSeq(snapshot[1], LAMBDA t : Exists(raw, t))

\* the calendar months in which an artifact has observations
MonthsOf(content) == {MonthOf(content[k]) : k \in DOMAIN content}

\* the months but the latest
MonthsKept(content) ==
  {m \in MonthsOf(content) : \E x \in MonthsOf(content) : m < x}

(***************************************************************************)
(* C14.  clean_stock_data on a universe some, all or none of whose symbols *)
(* have an artifact ends without error, and every record it emits is of a  *)
(* symbol of the universe that has an artifact.                            *)
(***************************************************************************)
C14_SkipsMissingArtifacts ==
  (clean_pc # "idle" /\ snapshot # <<>>) =>
    /\ clean_ret.status = "ok"
    /\ \A k \in DOMAIN clean_ret.value :
         clean_ret.value[k].Symbol # NaN =>
           /\ clean_ret.value[k].Symbol[1] \in Range(snapshot[1])
           /\ Exists(raw, clean_ret.value[k].Symbol[1])

(***************************************************************************)
(* C15.  The frame of a symbol with an artifact has one record for every   *)
(* calendar month of the artifact but the latest, in month order; the      *)
(* record of a month carries the symbol, the close and the volume of the   *)
(* latest day observed in that month, and as log return NaN in the first   *)
(* record and ln(price / price of the record before) in the others.        *)
(***************************************************************************)
C15_LastDay(content, m) ==
  CHOOSE d \in Range(content) :
    /\ MonthOf(d) = m
    /\ \A e \in Range(content) : MonthOf(e) = m => e <= d

C15_Month(content, j) ==
  CHOOSE m \in MonthsKept(content) :
    Cardinality({x \in MonthsKept(content) : x < m}) = j - 1

C15_MonthlyRecords ==
  (clean_pc # "idle" /\ snapshot # <<>>) =>
    \A k \in DOMAIN clean_df_list :
      LET content == raw[CleanedTickers[k]][1].content
          df == clean_df_list[k]
      IN /\ Len(df) = Cardinality(MonthsKept(content))
         /\ \A j \in DOMAIN df :
              LET d == C15_LastDay(content, C15_Month(content, j))
              IN /\ df[j].Symbol = <<CleanedTickers[k]>>
                 /\ df[j].Period = <<C15_Month(content, j)>>
                 /\ df[j].Price = <<market[d].Close>>
                 /\ df[j].Volume = <<market[d].Volume>>
                 /\ df[j].Monthly_Log_Return =
                      IF j = 1 THEN NaN
                      ELSE <<df[j].Price[1], df[j - 1].Price[1]>>

(***************************************************************************)
(* C19.  A symbol whose artifact has observations in at most one calendar  *)
(* month adds no record and raises no error: the log-return column is as   *)
(* long as the months kept.                                                *)
(***************************************************************************)
C19_ShortArtifactAddsNothing ==
  (clean_pc # "idle" /\ snapshot # <<>>) =>
    \A k \in DOMAIN clean_df_list :
      Cardinality(MonthsOf(raw[CleanedTickers[k]][1].content)) <= 1 =>
        /\ clean_df_list[k] = <<>>
        /\ clean_ret.status = "ok"

(***************************************************************************)
(* C16.  End to end.  The universe is not empty and each of its symbols    *)
(* has an artifact at most max_days_since_update days old or none;         *)
(* update_stock_data has returned with every fetch successful and          *)
(* clean_stock_data has run after it.  Then exactly the symbols without an *)
(* artifact were fetched, and the panel has records of every symbol of the *)
(* universe: of the months of its prior artifact if it had one, of the     *)
(* months of the fetched series if not.                                    *)
(***************************************************************************)
C16_Scenario ==
  /\ snapshot # <<>>
  /\ snapshot[1] # <<>>
  /\ \A t \in Range(snapshot[1]) :
       Exists(raw0, t) => raw0[t][1].age <= max_days_since_update * TicksPerDay
  /\ dl_pc = "returned"
  /\ dl_failed = {}
  /\ clean_pc # "idle"
  /\ clean_when = "returned"

C16_OnlyMissingFetched ==
  /\ tickers_to_download = <<SelectSeq(snapshot[1], LAMBDA t : ~Exists(raw0, t))>>
  /\ \A t \in Symbols :
       IF t \in Range(snapshot[1]) /\ ~Exists(raw0, t)
         THEN raw[t] = <<Artifact(DaySeq(SeriesLen), 0)>>
         ELSE raw[t] = raw0[t] /\ fetched[t] = {}

C16_PanelMonths(t) ==
  {clean_ret.value[k].Period[1] :
     k \in {i \in DOMAIN clean_ret.value : clean_ret.value[i].Symbol = <<t>>}}

C16_TwoMonthsEach ==
  \A t \in Range(snapshot[1]) :
    Exists(raw, t) => Cardinality(MonthsOf(raw[t][1].content)) >= 2

C18_SwapIsAtomic ==
  /\ rp_pc \in {"drawn", "done"} => rp_range = Len(rp_list)
  /\ rp_ret.status # "IndexError"

====
